---- MODULE Spec2Model ----
(***************************************************************************)
(* Model of src/main.py: the per-item pipeline download_and_tag and the    *)
(* orchestrator main/wrapped that runs it for every manifest item under a  *)
(* semaphore.                                                              *)
(*                                                                         *)
(* Texts (date strings, location strings) are sequences of one-character   *)
(* strings so that strip/replace/strptime/re.search can be computed the    *)
(* way Python computes them.  Byte buffers are sequences of 0..255.        *)
(* File names are TLA+ strings built with \o.                              *)
(***************************************************************************)
EXTENDS Integers, Sequences, FiniteSets, TLC

(***************************************************************************)
(* Bounds of the model                                                     *)
(***************************************************************************)
\* length of the manifest of a run of Spec
NumItems == 3
\* size of the semaphore created at main.py:166 (the program uses 12; the
\* model scales it below NumItems so that tasks really wait for a slot)
SemLimit == 2

None == "None"

(***************************************************************************)
(* Text helpers (str methods used by the program)                          *)
(***************************************************************************)
Digits == <<"0","1","2","3","4","5","6","7","8","9">>

IsDigit(c) == \E k \in 1..10 : Digits[k] = c

DigitVal(c) == (CHOOSE k \in 1..10 : Digits[k] = c) - 1

\* the characters str.strip() and the regex class \s remove / match
IsSpace(c) == c \in {" ", "\t", "\n", "\r"}

RECURSIVE Join(_)
\* the str made of the characters of s
Join(s) == IF s = <<>> THEN "" ELSE Head(s) \o Join(Tail(s))

RECURSIVE LStrip(_)
LStrip(s) == IF s # <<>> /\ IsSpace(Head(s)) THEN LStrip(Tail(s)) ELSE s

RECURSIVE RStrip(_)
RStrip(s) ==
    IF s # <<>> /\ IsSpace(s[Len(s)]) THEN RStrip(SubSeq(s, 1, Len(s) - 1)) ELSE s

\* str.strip()
Strip(s) == RStrip(LStrip(s))

\* s[p..] starts with sub (p is 1-based)
StartsWithAt(s, p, sub) ==
    /\ p + Len(sub) - 1 <= Len(s)
    /\ \A k \in 1..Len(sub) : s[p + k - 1] = sub[k]

RECURSIVE Replace(_, _, _)
\* str.replace(old, new): every non-overlapping occurrence, left to right
Replace(s, old, new) ==
    IF s = <<>> THEN <<>>
    ELSE IF StartsWithAt(s, 1, old)
         THEN new \o Replace(SubSeq(s, Len(old) + 1, Len(s)), old, new)
         ELSE <<Head(s)>> \o Replace(Tail(s), old, new)

\* number of consecutive decimal digits of s starting at position p
RECURSIVE DigitRun(_, _)
DigitRun(s, p) ==
    IF p <= Len(s) /\ IsDigit(s[p]) THEN 1 + DigitRun(s, p + 1) ELSE 0

\* number of consecutive whitespace characters of s starting at position p
RECURSIVE SpaceRun(_, _)
SpaceRun(s, p) ==
    IF p <= Len(s) /\ IsSpace(s[p]) THEN 1 + SpaceRun(s, p + 1) ELSE 0

RECURSIVE NumVal(_, _, _)
\* the number written by the n digits of s starting at p
NumVal(s, p, n) ==
    IF n = 0 THEN 0 ELSE NumVal(s, p, n - 1) * 10 + DigitVal(s[p + n - 1])

Pad2(n) == IF n < 10 THEN "0" \o ToString(n) ELSE ToString(n)

Pad4(n) ==
    IF n < 10 THEN "000" \o ToString(n)
    ELSE IF n < 100 THEN "00" \o ToString(n)
    ELSE IF n < 1000 THEN "0" \o ToString(n)
    ELSE ToString(n)

(***************************************************************************)
(* Metadata parser: parse_dt_utc_str (main.py:21-25)                       *)
(***************************************************************************)
\* a datetime that is absent (Python's None, or the parse raised)
NoDt == [ok |-> FALSE]

IsLeap(y) == (y % 4 = 0 /\ y % 100 # 0) \/ y % 400 = 0

DaysInMonth(y, m) ==
    IF m = 2 THEN (IF IsLeap(y) THEN 29 ELSE 28)
    ELSE IF m \in {4, 6, 9, 11} THEN 30 ELSE 31

\* the alternatives of the regular expression strptime builds for one
\* directive, applied to a run of n digits of value v that must be consumed
\* whole because a literal or the end of the text follows
DirectiveOK(dir, n, v) ==
    CASE dir = "Y" -> n = 4
      [] dir = "m" -> (n = 1 /\ v \in 1..9) \/ (n = 2 /\ v \in 1..12)
      [] dir = "d" -> (n = 1 /\ v \in 1..9) \/ (n = 2 /\ v \in 1..31)
      [] dir = "H" -> n = 1 \/ (n = 2 /\ v <= 23)
      [] dir = "M" -> n = 1 \/ (n = 2 /\ v <= 59)
      [] dir = "S" -> n = 1 \/ (n = 2 /\ v <= 61)

\* one directive of the format at position p of s, then the literal lit:
\* [ok, val, next]
Field(s, p, dir, lit) ==
    LET n == DigitRun(s, p)
        v == NumVal(s, p, n)
    IN  IF DirectiveOK(dir, n, v) /\ StartsWithAt(s, p + n, lit)
        THEN [ok |-> TRUE, val |-> v, next |-> p + n + Len(lit)]
        ELSE [ok |-> FALSE, val |-> 0, next |-> p]

\* %d followed by the blank of the format (one or more whitespace
\* characters); %d also accepts a blank and one digit 1..9
DayField(s, p) ==
    LET q  == IF p + 1 <= Len(s) /\ s[p] = " " /\ DigitRun(s, p + 1) = 1
              THEN p + 1 ELSE p
        n  == DigitRun(s, q)
        v  == NumVal(s, q, n)
        ws == SpaceRun(s, q + n)
    IN  IF DirectiveOK("d", n, v) /\ (q = p \/ v \in 1..9) /\ ws >= 1
        THEN [ok |-> TRUE, val |-> v, next |-> q + n + ws]
        ELSE [ok |-> FALSE, val |-> 0, next |-> p]

\* datetime.strptime(s, "%Y-%m-%d %H:%M:%S"): the datetime (ok = TRUE and
\* its fields), or ok = FALSE where strptime raises ValueError
strptime(s) ==
    LET fY == Field(s, 1, "Y", <<"-">>)
        fm == Field(s, fY.next, "m", <<"-">>)
        fd == DayField(s, fm.next)
        fH == Field(s, fd.next, "H", <<":">>)
        fM == Field(s, fH.next, "M", <<":">>)
        fS == Field(s, fM.next, "S", <<>>)
    IN  IF /\ fY.ok /\ fm.ok /\ fd.ok /\ fH.ok /\ fM.ok /\ fS.ok
           /\ fS.next = Len(s) + 1
           /\ fY.val >= 1
           /\ fd.val <= DaysInMonth(fY.val, fm.val)
           /\ fS.val <= 59
        THEN [ok |-> TRUE, year |-> fY.val, month |-> fm.val, day |-> fd.val,
              hour |-> fH.val, minute |-> fM.val, second |-> fS.val]
        ELSE NoDt

\* dt.strftime("%Y:%m:%d %H:%M:%S")
ExifDt(dt) ==
    Pad4(dt.year) \o ":" \o Pad2(dt.month) \o ":" \o Pad2(dt.day) \o " " \o
    Pad2(dt.hour) \o ":" \o Pad2(dt.minute) \o ":" \o Pad2(dt.second)

\* dt.strftime("%Y-%m-%dT%H:%M:%SZ")
IsoZ(dt) ==
    Pad4(dt.year) \o "-" \o Pad2(dt.month) \o "-" \o Pad2(dt.day) \o "T" \o
    Pad2(dt.hour) \o ":" \o Pad2(dt.minute) \o ":" \o Pad2(dt.second) \o "Z"

\* parse_dt_utc_str(s): (exif_dt, iso_z, dt); raised = TRUE where the
\* ValueError of strptime leaves the function
parse_dt_utc_str(s) ==
    LET dt == strptime(Replace(s, <<" ","U","T","C">>, <<>>))
    IN  IF dt.ok
        THEN [raised |-> FALSE, exif_dt |-> ExifDt(dt), iso_z |-> IsoZ(dt), dt |-> dt]
        ELSE [raised |-> TRUE, exif_dt |-> None, iso_z |-> None, dt |-> NoDt]

\* days between 1970-01-01 and the civil date y-m-d
DaysFromCivil(y, m, d) ==
    LET yy  == IF m <= 2 THEN y - 1 ELSE y
        era == yy \div 400
        yoe == yy - era * 400
        mp  == IF m > 2 THEN m - 3 ELSE m + 9
        doy == (153 * mp + 2) \div 5 + d - 1
        doe == yoe * 365 + yoe \div 4 - yoe \div 100 + doy
    IN  era * 146097 + doe - 719468

\* dt.timestamp() of a datetime whose tzinfo is UTC
Timestamp(dt) ==
    DaysFromCivil(dt.year, dt.month, dt.day) * 86400
        + dt.hour * 3600 + dt.minute * 60 + dt.second

(***************************************************************************)
(* Metadata parser: parse_lat_lon (main.py:27-32)                          *)
(* A float is [neg, mag]: its sign bit and its magnitude in units of       *)
(* 10^-FracDigits degrees (location texts carry at most FracDigits         *)
(* decimals).                                                              *)
(***************************************************************************)
\* decimals of a coordinate kept by the model: those the program prints with
\* the format +.6f
FracDigits == 6

DegScale == 10 ^ FracDigits

NoLatLon == [ok |-> FALSE]

\* [+\-]?\d+(?:\.\d+)? at position p: [ok, neg, mag, next]
NumberAt(s, p) ==
    LET signed == p <= Len(s) /\ s[p] \in {"+", "-"}
        q      == IF signed THEN p + 1 ELSE p
        n      == DigitRun(s, q)
        hasDot == q + n <= Len(s) /\ s[q + n] = "." /\ DigitRun(s, q + n + 1) >= 1
        f      == IF hasDot THEN DigitRun(s, q + n + 1) ELSE 0
        kept   == IF f <= FracDigits THEN f ELSE FracDigits
    IN  IF n >= 1
        THEN [ok   |-> TRUE,
              neg  |-> signed /\ s[p] = "-",
              mag  |-> NumVal(s, q, n) * DegScale
                         + NumVal(s, q + n + 1, kept) * 10 ^ (FracDigits - kept),
              next |-> IF hasDot THEN q + n + 1 + f ELSE q + n]
        ELSE [ok |-> FALSE, neg |-> FALSE, mag |-> 0, next |-> p]

LatitudeLit == <<"L","a","t","i","t","u","d","e",",">>

LongitudeLit == <<"L","o","n","g","i","t","u","d","e",":">>

\* the pattern of line 28 matched at position p: [ok, lat, lon]
LatLonAt(s, p) ==
    LET p1 == p + Len(LatitudeLit)
        p2 == p1 + SpaceRun(s, p1)
        p3 == p2 + Len(LongitudeLit)
        p4 == p3 + SpaceRun(s, p3)
        n1 == NumberAt(s, p4)
        p5 == n1.next + SpaceRun(s, n1.next)
        p6 == p5 + 1
        p7 == p6 + SpaceRun(s, p6)
        n2 == NumberAt(s, p7)
    IN  IF /\ StartsWithAt(s, p, LatitudeLit)
           /\ StartsWithAt(s, p2, LongitudeLit)
           /\ n1.ok
           /\ StartsWithAt(s, p5, <<",">>)
           /\ n2.ok
        THEN [ok |-> TRUE, lat |-> [neg |-> n1.neg, mag |-> n1.mag],
                           lon |-> [neg |-> n2.neg, mag |-> n2.mag]]
        ELSE NoLatLon

\* the sentinel test with "or": one zero value discards the pair
parse_lat_lon_either_zero(loc) ==
    LET hits == {p \in 1..Len(loc) : LatLonAt(loc, p).ok}
    IN  IF hits = {} THEN NoLatLon
        ELSE LET m == LatLonAt(loc, CHOOSE p \in hits : \A q \in hits : p <= q)
             IN  IF m.lat.mag = 0 \/ m.lon.mag = 0 THEN NoLatLon ELSE m

\* parse_lat_lon(loc): re.search takes the leftmost match; ok = FALSE is None
parse_lat_lon(loc) ==
    LET hits == {p \in 1..Len(loc) : LatLonAt(loc, p).ok}
    IN  IF hits = {} THEN NoLatLon
        ELSE LET m == LatLonAt(loc, CHOOSE p \in hits : \A q \in hits : p <= q)
             IN  IF m.lat.mag = 0 /\ m.lon.mag = 0 THEN NoLatLon ELSE m

(***************************************************************************)
(* Coordinate encoder: to_dms_rationals (main.py:34-41)                    *)
(***************************************************************************)
\* round(num / den) for num >= 0, den > 0: Python rounds halves to even
Round(num, den) ==
    LET q == num \div den
        r == num % den
    IN  IF 2 * r < den THEN q
        ELSE IF 2 * r > den THEN q + 1
        ELSE IF q % 2 = 0 THEN q ELSE q + 1

\* floor(log2(n)) for n >= 1
RECURSIVE Log2Floor(_)
Log2Floor(n) == IF n < 2 THEN 0 ELSE 1 + Log2Floor(n \div 2)

\* what is left of the fraction r / DegScale after k binary digits of it,
\* ten digits at a time
RECURSIVE BinaryTail(_, _)
BinaryTail(r, k) ==
    IF k >= 10 THEN BinaryTail((r * 2 ^ 10) % DegScale, k - 10)
    ELSE (r * 2 ^ k) % DegScale

\* the zero binary digits of r / DegScale before its first one, r > 0
RECURSIVE LeadingZeros(_)
LeadingZeros(r) == IF 2 * r >= DegScale THEN 0 ELSE 1 + LeadingZeros(2 * r)

\* The double arithmetic of (deg - d) * 60 where the exact product is a
\* whole number M of minutes: TRUE when the computed product is below M.
\* float(text) is the decimal rounded to 53 significant bits, p of them
\* after the binary point; deg - d is exact; the product M + 60 * delta,
\* delta the error of float(text), is rounded to the double nearest to it,
\* which is below M when delta < 0 and 60 * -delta exceeds half the
\* distance 2^-g from M to the double before it.
RoundsBelow(deg) ==
    LET d   == deg \div DegScale
        rem == deg - d * DegScale
        M   == (rem * 60) \div DegScale
        p   == 52 - (IF d >= 1 THEN Log2Floor(d) ELSE -(LeadingZeros(rem) + 1))
        r   == BinaryTail(rem, p)
        g   == (IF M \in {1, 2, 4, 8, 16, 32} THEN 54 ELSE 53) - Log2Floor(M)
    IN  /\ rem # 0
        /\ (rem * 60) % DegScale = 0
        /\ r # 0
        /\ 2 * r < DegScale
        /\ IF p >= g THEN 60 * r > DegScale * 2 ^ (p - g)
                     ELSE 60 * r > DegScale \div 2 ^ (g - p)

\* the minutes rounded to the nearest instead of truncated
to_dms_rationals_round_minutes(deg_float) ==
    LET sign    == IF ~deg_float.neg \/ deg_float.mag = 0 THEN 1 ELSE -1
        deg     == deg_float.mag
        d       == deg \div DegScale
        m_float == (deg - d * DegScale) * 60 * 10 - (IF RoundsBelow(deg) THEN 1 ELSE 0)
        m       == Round(m_float, DegScale * 10)
        s       == Round((m_float - m * DegScale * 10) * 60, DegScale \div 1000)
    IN  [sign |-> sign, dms |-> << <<d, 1>>, <<m, 1>>, <<s, 10000>> >>]

\* to_dms_rationals(deg_float), with m_float in units of 10^-(FracDigits+1)
\* minutes: a computed product below a whole number of minutes is one unit
\* below it, any other is the exact product (the error of the double is
\* far below what int() and round() can see there)
to_dms_rationals(deg_float) ==
    LET sign    == IF ~deg_float.neg \/ deg_float.mag = 0 THEN 1 ELSE -1
        deg     == deg_float.mag
        d       == deg \div DegScale
        m_float == (deg - d * DegScale) * 60 * 10 - (IF RoundsBelow(deg) THEN 1 ELSE 0)
        m       == m_float \div (DegScale * 10)
        s       == Round((m_float - m * DegScale * 10) * 60, DegScale \div 1000)
    IN  [sign |-> sign, dms |-> << <<d, 1>>, <<m, 1>>, <<s, 10000>> >>]

RECURSIVE PadFrac(_, _)
\* n written with k digits
PadFrac(n, k) ==
    IF k = 0 THEN "" ELSE PadFrac(n \div 10, k - 1) \o ToString(n % 10)

\* f"{x:+.6f}"
FormatSigned(x) ==
    (IF x.neg THEN "-" ELSE "+") \o ToString(x.mag \div DegScale) \o "."
        \o PadFrac(x.mag % DegScale, FracDigits)

\* f"{lat:+.6f}{lon:+.6f}/" (main.py:129)
Iso6709(latlon) == FormatSigned(latlon.lat) \o FormatSigned(latlon.lon) \o "/"

(***************************************************************************)
(* Format classifier: EXT_BY_CT and detect_extension (main.py:9-16, 43-66) *)
(***************************************************************************)
UpperCase == <<"A","B","C","D","E","F","G","H","I","J","K","L","M",
               "N","O","P","Q","R","S","T","U","V","W","X","Y","Z">>

LowerCase == <<"a","b","c","d","e","f","g","h","i","j","k","l","m",
               "n","o","p","q","r","s","t","u","v","w","x","y","z">>

\* str.lower()
Lower(s) ==
    [k \in 1..Len(s) |->
        IF \E u \in 1..26 : UpperCase[u] = s[k]
        THEN LowerCase[CHOOSE u \in 1..26 : UpperCase[u] = s[k]]
        ELSE s[k]]

\* s.split(";")[0]
BeforeSemicolon(s) ==
    LET semis == {k \in 1..Len(s) : s[k] = ";"}
    IN  IF semis = {} THEN s
        ELSE SubSeq(s, 1, (CHOOSE k \in semis : \A j \in semis : k <= j) - 1)

EXT_BY_CT ==
    [ct \in {"image/jpeg", "image/jpg", "image/png", "image/webp",
             "video/mp4", "video/quicktime"} |->
        CASE ct = "image/jpeg"      -> ".jpg"
          [] ct = "image/jpg"       -> ".jpg"
          [] ct = "image/png"       -> ".png"
          [] ct = "image/webp"      -> ".webp"
          [] ct = "video/mp4"       -> ".mp4"
          [] ct = "video/quicktime" -> ".mov"]

\* data[a:b] of a bytes object (clipped to its length)
Slice(data, a, b) ==
    SubSeq(data, a + 1, IF b <= Len(data) THEN b ELSE Len(data))

\* data.startswith(prefix)
StartsWith(data, prefix) == Slice(data, 0, Len(prefix)) = prefix

FTYP == <<102, 116, 121, 112>>

HeicBrands ==
    { <<104, 101, 105, 99>>, <<104, 101, 105, 120>>, <<104, 101, 118, 99>>,
      <<104, 101, 118, 120>>, <<109, 105, 102, 49>> }

\* the content type compared without lower()
detect_extension_case_sensitive(data, content_type) ==
    LET ct == Join(Strip(BeforeSemicolon(content_type)))
    IN  IF ct \in DOMAIN EXT_BY_CT THEN EXT_BY_CT[ct]
        ELSE IF StartsWith(data, <<255, 216, 255>>) THEN ".jpg"
        ELSE IF StartsWith(data, <<137, 80, 78, 71, 13, 10, 26, 10>>) THEN ".png"
        ELSE IF StartsWith(data, <<82, 73, 70, 70>>)
                /\ Slice(data, 8, 12) = <<87, 69, 66, 80>> THEN ".webp"
        ELSE IF Slice(data, 4, 8) = FTYP
             THEN IF Slice(data, 8, 12) \in HeicBrands THEN ".heic"
                  ELSE IF Slice(data, 8, 12) = <<113, 116, 32, 32>> THEN ".mov"
                  ELSE ".mp4"
        ELSE IF Slice(data, 0, 2) = <<0, 0>> /\ Slice(data, 4, 8) = FTYP THEN ".mp4"
        ELSE IF StartsWith(data, <<80, 75, 3, 4>>) THEN ".zip"
        ELSE ".bin"

detect_extension(data, content_type) ==
    LET ct == Join(Lower(Strip(BeforeSemicolon(content_type))))
    IN  IF ct \in DOMAIN EXT_BY_CT THEN EXT_BY_CT[ct]
        ELSE IF StartsWith(data, <<255, 216, 255>>) THEN ".jpg"
        ELSE IF StartsWith(data, <<137, 80, 78, 71, 13, 10, 26, 10>>) THEN ".png"
        ELSE IF StartsWith(data, <<82, 73, 70, 70>>)
                /\ Slice(data, 8, 12) = <<87, 69, 66, 80>> THEN ".webp"
        ELSE IF Slice(data, 4, 8) = FTYP
             THEN IF Slice(data, 8, 12) \in HeicBrands THEN ".heic"
                  ELSE IF Slice(data, 8, 12) = <<113, 116, 32, 32>> THEN ".mov"
                  ELSE ".mp4"
        ELSE IF Slice(data, 0, 2) = <<0, 0>> /\ Slice(data, 4, 8) = FTYP THEN ".mp4"
        ELSE IF StartsWith(data, <<80, 75, 3, 4>>) THEN ".zip"
        ELSE ".bin"

(***************************************************************************)
(* The output directory.  fs maps a file name to [content, times]:         *)
(*   content = [kind, src, meta]: kind "raw" is exactly the bytes src;     *)
(*     "jpeg" is src re-encoded with the EXIF block meta; "remux" is src   *)
(*     remuxed by the command meta; "partial" is a truncated or half       *)
(*     written file; "json" is the sidecar document meta;                  *)
(*   times = <<>> while the file has the times of its last write, and      *)
(*     <<atime, mtime>> once os.utime has set them.                        *)
(* An item's effects are computed on w = [fs, log, steps]: the directory,  *)
(* the lines the item printed with tqdm.write, and the steps it ran.       *)
(***************************************************************************)
OUTPUT_DIR == "downloads"

RawContent(data) == [kind |-> "raw", src |-> data, meta |-> <<>>]

\* with open(path, "wb"/"w") as f: f.write(content)
WriteFile(fs, path, content) ==
    [p \in DOMAIN fs \cup {path} |->
        IF p = path THEN [content |-> content, times |-> <<>>] ELSE fs[p]]

\* os.replace(src, dst), src existing
ReplaceFile(fs, src, dst) ==
    [p \in (DOMAIN fs \cup {dst}) \ {src} |-> IF p = dst THEN fs[src] ELSE fs[p]]

\* tqdm.write(f"<msg> {os.path.basename(filepath)}: {e}")
LogLine(w, msg, name) == [w EXCEPT !.log = Append(@, [msg |-> msg, arg |-> name])]

Ran(w, step) == [w EXCEPT !.steps = Append(@, step)]

(***************************************************************************)
(* Filesystem finalizer: set_file_times (main.py:68-75)                    *)
(* utime: "ok", or "fail" where os.utime raises.                           *)
(***************************************************************************)
\* the test of dt inverted: a present dt returns early, an absent one
\* reaches dt.timestamp(), whose AttributeError the except logs
set_file_times_inverted(w, filepath, name, dt, utime) ==
    LET w1 == Ran(w, "set_file_times")
    IN  IF dt.ok THEN w1
        ELSE LogLine(w1, "Failed to set file times for", name)

set_file_times(w, filepath, name, dt, utime) ==
    LET w1 == Ran(w, "set_file_times")
    IN  IF ~dt.ok THEN w1
        ELSE IF utime = "ok"
        THEN [w1 EXCEPT !.fs[filepath].times = <<Timestamp(dt), Timestamp(dt)>>]
        ELSE LogLine(w1, "Failed to set file times for", name)

(***************************************************************************)
(* Photo embedder (main.py:102-122)                                        *)
(* photo: "ok"; "open_fail" where Image.open raises; "dump_fail" where     *)
(* piexif.dump raises; "save_fail" where im.save raises after it has       *)
(* opened filepath for writing.                                            *)
(***************************************************************************)
PhotoOutcomes == {"ok", "open_fail", "dump_fail", "save_fail"}

EmptyDict == [k \in {} |-> None]

\* one entry of a dict
Entry(k, v) == [x \in {k} |-> v]

\* d1 updated with the entries of d2
Merge(d1, d2) ==
    [k \in DOMAIN d1 \cup DOMAIN d2 |-> IF k \in DOMAIN d2 THEN d2[k] ELSE d1[k]]

\* the three date fields written without the test of exif_dt
ExifDict_dates_always(exif_dt, latlon) ==
    LET lat == to_dms_rationals(latlon.lat)
        lon == to_dms_rationals(latlon.lon)
    IN  [zeroth |-> Entry("DateTime", exif_dt),
         Exif   |-> Merge(Entry("DateTimeOriginal", exif_dt),
                          Entry("DateTimeDigitized", exif_dt)),
         GPS    |-> IF latlon.ok
                    THEN [GPSLatitudeRef  |-> IF lat.sign >= 0 THEN "N" ELSE "S",
                          GPSLatitude     |-> lat.dms,
                          GPSLongitudeRef |-> IF lon.sign >= 0 THEN "E" ELSE "W",
                          GPSLongitude    |-> lon.dms,
                          GPSVersionID    |-> <<2, 3, 0, 0>>]
                    ELSE EmptyDict]

\* exif_dict as built by lines 105-118
ExifDict(exif_dt, latlon) ==
    LET lat == to_dms_rationals(latlon.lat)
        lon == to_dms_rationals(latlon.lon)
    IN  [zeroth |-> IF exif_dt # None THEN Entry("DateTime", exif_dt) ELSE EmptyDict,
         Exif   |-> IF exif_dt # None
                    THEN Merge(Entry("DateTimeOriginal", exif_dt),
                               Entry("DateTimeDigitized", exif_dt))
                    ELSE EmptyDict,
         GPS    |-> IF latlon.ok
                    THEN [GPSLatitudeRef  |-> IF lat.sign >= 0 THEN "N" ELSE "S",
                          GPSLatitude     |-> lat.dms,
                          GPSLongitudeRef |-> IF lon.sign >= 0 THEN "E" ELSE "W",
                          GPSLongitude    |-> lon.dms,
                          GPSVersionID    |-> <<2, 3, 0, 0>>]
                    ELSE EmptyDict]

PhotoEmbed(w, filepath, name, exif_dt, latlon, photo) ==
    LET w1  == Ran(w, "photo")
        src == w.fs[filepath].content.src
    IN  CASE photo = "ok" ->
               [w1 EXCEPT !.fs = WriteFile(@, filepath,
                    [kind |-> "jpeg", src |-> src, meta |-> ExifDict(exif_dt, latlon)])]
          [] photo \in {"open_fail", "dump_fail"} ->
               LogLine(w1, "EXIF failed for", name)
          [] photo = "save_fail" ->
               LogLine([w1 EXCEPT !.fs = WriteFile(@, filepath,
                            [kind |-> "partial", src |-> src, meta |-> <<>>])],
                       "EXIF failed for", name)

(***************************************************************************)
(* Video embedder (main.py:124-143)                                        *)
(* video: "ok" where the tool exits 0 with the remuxed tmp written;        *)
(* "no_binary" where subprocess.run raises because the tool cannot be      *)
(* started; "fail_partial" where the tool fails having written part of     *)
(* tmp; "fail_no_tmp" where the tool fails having written nothing.         *)
(***************************************************************************)
VideoOutcomes == {"ok", "no_binary", "fail_partial", "fail_no_tmp"}

\* cmd as built by lines 131-139
RemuxCmd(bin, filepath, tmp, date_str, loc, iso_z, latlon) ==
    <<bin, "-y", "-i", filepath, "-codec", "copy">>
    \o (IF iso_z # None THEN <<"-metadata", "creation_time=" \o iso_z>> ELSE <<>>)
    \o (IF date_str # <<>> \/ latlon.ok
        THEN <<"-metadata",
               "description=Date: " \o Join(date_str) \o "; Location: " \o Join(loc)>>
        ELSE <<>>)
    \o (IF latlon.ok
        THEN <<"-metadata", "com.apple.quicktime.location.ISO6709=" \o Iso6709(latlon),
               "-metadata", "location=" \o Iso6709(latlon)>>
        ELSE <<>>)
    \o <<tmp>>

\* subprocess.run(cmd, ..., check=False): what the tool leaves at tmp
RunTool(fs, filepath, tmp, cmd, video) ==
    LET src == fs[filepath].content.src
    IN  CASE video = "ok" ->
               WriteFile(fs, tmp, [kind |-> "remux", src |-> src, meta |-> cmd])
          [] video = "fail_partial" ->
               WriteFile(fs, tmp, [kind |-> "partial", src |-> src, meta |-> <<>>])
          [] OTHER -> fs

\* an except clause that passes instead of printing
VideoEmbed_silent(w, bin, filepath, name, date_str, loc, iso_z, latlon, video) ==
    LET w1  == Ran(w, "video")
        tmp == filepath \o ".tmp.mp4"
        cmd == RemuxCmd(bin, filepath, tmp, date_str, loc, iso_z, latlon)
        fs1 == RunTool(w.fs, filepath, tmp, cmd, video)
    IN  IF video = "no_binary"
        THEN w1
        ELSE IF tmp \in DOMAIN fs1
        THEN [w1 EXCEPT !.fs = ReplaceFile(fs1, tmp, filepath)]
        ELSE [w1 EXCEPT !.fs = fs1]

VideoEmbed(w, bin, filepath, name, date_str, loc, iso_z, latlon, video) ==
    LET w1  == Ran(w, "video")
        tmp == filepath \o ".tmp.mp4"
        cmd == RemuxCmd(bin, filepath, tmp, date_str, loc, iso_z, latlon)
        fs1 == RunTool(w.fs, filepath, tmp, cmd, video)
    IN  IF video = "no_binary"
        THEN LogLine(w1, "MP4 metadata failed for", name)
        ELSE IF tmp \in DOMAIN fs1
        THEN [w1 EXCEPT !.fs = ReplaceFile(fs1, tmp, filepath)]
        ELSE LogLine([w1 EXCEPT !.fs = fs1], "MP4 metadata failed for", name)

(***************************************************************************)
(* Sidecar writer (main.py:145-151)                                        *)
(* sidecar: "ok", or "fail" where open raises.                             *)
(***************************************************************************)
SidecarOutcomes == {"ok", "fail"}

SidecarWrite(w, filepath, name, date_str, loc, sidecar) ==
    LET w1 == Ran(w, "sidecar")
    IN  IF sidecar = "ok"
        THEN [w1 EXCEPT !.fs = WriteFile(@, filepath \o ".json",
                 [kind |-> "json", src |-> <<>>,
                  meta |-> [date |-> Join(date_str), location |-> Join(loc)]])]
        ELSE LogLine(w1, "Sidecar failed for", name)

(***************************************************************************)
(* Inputs of a run: manifest entries and HTTP responses                    *)
(***************************************************************************)
DateUTC == <<"2","0","2","1","-","0","6","-","1","5"," ","1","4",":","3","0",":","0","0"," ","U","T","C">>

DatePlain == <<"2","0","2","1","-","0","6","-","1","5"," ","1","4",":","3","0",":","0","0">>

DateMalformed == <<"n","o","t","-","a","-","d","a","t","e">>

LocCoords == <<"L","a","t","i","t","u","d","e",","," ","L","o","n","g","i","t","u","d","e",":"," ","3","7",".","1",","," ","-","1","2","2",".","6">>

LocZero == <<"L","a","t","i","t","u","d","e",","," ","L","o","n","g","i","t","u","d","e",":"," ","0",".","0",","," ","0",".","0">>

\* the "Date" / "Location" pairs manifest entries are drawn from
Entries ==
    { [Date |-> DateUTC,       Location |-> LocCoords],
      [Date |-> DatePlain,     Location |-> <<>>],
      [Date |-> <<>>,          Location |-> LocZero],
      [Date |-> <<>>,          Location |-> <<>>],
      [Date |-> DateMalformed, Location |-> LocCoords] }

\* the entries of the manifests of Spec
BatchEntries ==
    { [Date |-> DateUTC,       Location |-> LocCoords],
      [Date |-> DateMalformed, Location |-> LocCoords] }

\* the status codes a GET answers with
Statuses == {200, 404}

CtJpeg == <<"i","m","a","g","e","/","j","p","e","g">>

CtMp4 == <<"v","i","d","e","o","/","m","p","4",";"," ","c","o","d","e","c","s","=","a","v","c","1">>

\* the Content-Type header and body of the 200 responses: one per category
\* of the classifier, and a PNG body announced as image/jpeg
Responses ==
    { [ct |-> <<>>,   data |-> <<255, 216, 255, 224>>],
      [ct |-> CtJpeg, data |-> <<137, 80, 78, 71, 13, 10, 26, 10>>],
      [ct |-> <<>>,   data |-> <<137, 80, 78, 71, 13, 10, 26, 10>>],
      [ct |-> <<>>,   data |-> <<82, 73, 70, 70, 36, 0, 0, 0, 87, 69, 66, 80>>],
      [ct |-> CtMp4,  data |-> <<0, 0, 0, 24, 102, 116, 121, 112, 105, 115, 111, 109>>],
      [ct |-> <<>>,   data |-> <<0, 0, 0, 20, 102, 116, 121, 112, 113, 116, 32, 32>>],
      [ct |-> <<>>,   data |-> <<0, 0, 0, 24, 102, 116, 121, 112, 104, 101, 105, 99>>],
      [ct |-> <<>>,   data |-> <<80, 75, 3, 4>>],
      [ct |-> <<>>,   data |-> <<1, 2, 3>>] }

\* the responses of the runs of Spec
BatchResponses ==
    { [ct |-> <<>>,   data |-> <<255, 216, 255, 224>>],
      [ct |-> <<>>,   data |-> <<1, 2, 3>>] }

\* what shutil.which("ffmpeg") or "./ffmpeg" evaluates to (main.py:19)
ToolPaths == {"/usr/bin/ffmpeg", "./ffmpeg"}

(***************************************************************************)
(* State                                                                   *)
(***************************************************************************)
VARIABLES
    items,       \* the manifest: json.load(f)["Saved Media"]
    FFMPEG_BIN,  \* the module-level tool path
    remote,      \* the 200 responses the remote server can answer with
    host,        \* the outcomes the external calls can have on this host
    pc,          \* where each item's task wrapped(it) stands
    exc,         \* the exception each item's task ended with, or None
    locals,      \* the local variables of each item's download_and_tag
    sem,         \* value of the asyncio.Semaphore
    pbar,        \* the tqdm progress bar: [n, closed]
    log,         \* the lines each item's task printed with tqdm.write
    steps,       \* the file steps each item's task ran, in order
    fs,          \* the output directory
    gather,      \* TRUE once a task's exception was set on the gather future
    mainpc       \* where main stands: "gather", "returned" or "raised"

vars == <<items, FFMPEG_BIN, remote, host, pc, exc, locals, sem, pbar, log, steps, fs, gather, mainpc>>

\* no external call was made yet
NoEnv == [photo |-> None, video |-> None, sidecar |-> None, utime |-> None]

NoLocals ==
    [date_str |-> <<>>, loc |-> <<>>, exif_dt |-> None, iso_z |-> None,
     dt |-> NoDt, latlon |-> NoLatLon, status |-> 0, data |-> <<>>,
     content_type |-> <<>>, ext |-> None, filepath |-> None, cmd |-> <<>>,
     env |-> NoEnv]

\* the outcomes of the external calls of one item: Image.open/piexif.dump/
\* im.save, the remux tool, the sidecar open, os.utime
Envs ==
    [photo : PhotoOutcomes, video : VideoOutcomes, sidecar : SidecarOutcomes,
     utime : {"ok", "fail"}]

\* the outcomes of the runs of Spec: every call works, or every call fails
BatchEnvs ==
    { [photo |-> "ok", video |-> "ok", sidecar |-> "ok", utime |-> "ok"],
      [photo |-> "save_fail", video |-> "fail_partial", sidecar |-> "fail",
       utime |-> "fail"] }

Items == DOMAIN items

\* the state main builds before it awaits the gather (main.py:159-166), for
\* a manifest of n entries
InitWith(n, entries, tools, responses, envs) ==
    /\ items \in [1..n -> entries]
    /\ FFMPEG_BIN \in tools
    /\ remote = responses
    /\ host = envs
    /\ pc = [i \in 1..n |-> "pending"]
    /\ exc = [i \in 1..n |-> None]
    /\ locals = [i \in 1..n |-> NoLocals]
    /\ sem = SemLimit
    /\ pbar = [n |-> 0, closed |-> FALSE]
    /\ log = [i \in 1..n |-> <<>>]
    /\ steps = [i \in 1..n |-> <<>>]
    /\ fs = [p \in {} |-> None]
    /\ gather = FALSE
    /\ mainpc = "gather"

Init == InitWith(NumItems, BatchEntries, {"./ffmpeg"}, BatchResponses, BatchEnvs)

\* a manifest of one entry, with every input and outcome of the model
InitItem == InitWith(1, Entries, ToolPaths, Responses, Envs)

\* "Media Download Url" of the i-th entry
Url(i) == "https://cdn.example/" \o ToString(i)

(***************************************************************************)
(* The item pipeline after the body was read (main.py:90-156)              *)
(***************************************************************************)
\* date_str.replace(":","-").replace(" ","_") if date_str else "file"
BaseName(date_str) ==
    IF date_str # <<>>
    THEN Join(Replace(Replace(date_str, <<":">>, <<"-">>), <<" ">>, <<"_">>))
    ELSE "file"

\* os.path.join(OUTPUT_DIR, base + ext)
FilePath(date_str, ext) == OUTPUT_DIR \o "/" \o BaseName(date_str) \o ext

\* the branches without the zip short-circuit of lines 98-100
Embedder_without_zip(ext) ==
    IF ext = ".jpg" THEN "photo"
    ELSE IF ext \in {".mp4", ".mov"} THEN "video"
    ELSE "sidecar"

\* the branches with a video test that knows only ".mp4"
Embedder_mp4_only(ext) ==
    IF ext = ".zip" THEN "none"
    ELSE IF ext = ".jpg" THEN "photo"
    ELSE IF ext = ".mp4" THEN "video"
    ELSE "sidecar"

\* the branch lines 98-145 take for an extension
Embedder(ext) ==
    IF ext = ".zip" THEN "none"
    ELSE IF ext = ".jpg" THEN "photo"
    ELSE IF ext \in {".mp4", ".mov"} THEN "video"
    ELSE "sidecar"

\* the outcomes of env the item's branch consults: those of the calls it
\* makes
Consulted(ext, dt, env) ==
    [photo   |-> IF Embedder(ext) = "photo" THEN env.photo ELSE None,
     video   |-> IF Embedder(ext) = "video" THEN env.video ELSE None,
     sidecar |-> IF Embedder(ext) = "sidecar" THEN env.sidecar ELSE None,
     utime   |-> IF dt.ok THEN env.utime ELSE None]

\* the file times set right after the write, before the embedder runs
download_and_tag_body_finalize_first(w, L, bin, env) ==
    LET name == BaseName(L.date_str) \o L.ext
        w0   == Ran([w EXCEPT !.fs = WriteFile(@, L.filepath, RawContent(L.data))],
                    "write")
        w1   == set_file_times(w0, L.filepath, name, L.dt, env.utime)
        e    == Embedder(L.ext)
    IN  CASE e = "none"    -> w1
          [] e = "photo"   ->
               PhotoEmbed(w1, L.filepath, name, L.exif_dt, L.latlon, env.photo)
          [] e = "video"   ->
               VideoEmbed(w1, bin, L.filepath, name, L.date_str, L.loc,
                          L.iso_z, L.latlon, env.video)
          [] e = "sidecar" ->
               SidecarWrite(w1, L.filepath, name, L.date_str, L.loc, env.sidecar)

\* lines 94-156 on the item's locals L; env holds the outcome of each
\* external call
download_and_tag_body(w, L, bin, env) ==
    LET name == BaseName(L.date_str) \o L.ext
        w1   == Ran([w EXCEPT !.fs = WriteFile(@, L.filepath, RawContent(L.data))],
                    "write")
        e    == Embedder(L.ext)
        w2   == CASE e = "none"    -> w1
                  [] e = "photo"   ->
                       PhotoEmbed(w1, L.filepath, name, L.exif_dt, L.latlon, env.photo)
                  [] e = "video"   ->
                       VideoEmbed(w1, bin, L.filepath, name, L.date_str, L.loc,
                                  L.iso_z, L.latlon, env.video)
                  [] e = "sidecar" ->
                       SidecarWrite(w1, L.filepath, name, L.date_str, L.loc, env.sidecar)
    IN  set_file_times(w2, L.filepath, name, L.dt, env.utime)

(***************************************************************************)
(* The orchestrator: main and wrapped (main.py:158-176)                    *)
(***************************************************************************)
\* a semaphore that never reports itself locked
locked_never(value) == FALSE

\* asyncio.Semaphore.locked()
locked(value) == value = 0

\* a status test that lets client errors through
StatusFailed_server_errors(status) == status >= 500

\* resp.status != 200 (main.py:86)
StatusFailed(status) == status # 200

\* an exception leaves wrapped(it): the task ends with it and the gather
\* future takes the first one
Raised(i, e) ==
    /\ pc' = [pc EXCEPT ![i] = "raised"]
    /\ exc' = [exc EXCEPT ![i] = e]
    /\ gather' = TRUE

\* wrapped acquires the semaphore and download_and_tag runs up to the await
\* of session.get (lines 169-170, 78-85)
Enter(i) ==
    /\ pc[i] = "pending"
    /\ ~locked(sem)
    /\ LET date_str == Strip(items[i].Date)
           loc      == items[i].Location
           parsed   == IF date_str # <<>> THEN parse_dt_utc_str(date_str)
                       ELSE [raised |-> FALSE, exif_dt |-> None, iso_z |-> None,
                             dt |-> NoDt]
       IN  /\ locals' = [locals EXCEPT ![i] =
                 [@ EXCEPT !.date_str = date_str, !.loc = loc,
                           !.exif_dt = parsed.exif_dt, !.iso_z = parsed.iso_z,
                           !.dt = parsed.dt,
                           !.latlon = IF parsed.raised THEN NoLatLon
                                      ELSE parse_lat_lon(loc)]]
           /\ IF parsed.raised
              THEN Raised(i, "ValueError") /\ UNCHANGED sem
              ELSE /\ pc' = [pc EXCEPT ![i] = "requesting"]
                   /\ sem' = sem - 1
                   /\ UNCHANGED <<exc, gather>>
    /\ UNCHANGED <<items, FFMPEG_BIN, remote, host, pbar, log, steps, fs, mainpc>>

\* the response head arrives (lines 85-89); a status other than 200 ends the
\* item: it is logged, download_and_tag returns, wrapped updates the bar and
\* releases the semaphore
GetResponse(i) ==
    /\ pc[i] = "requesting"
    /\ \E status \in Statuses :
          /\ locals' = [locals EXCEPT ![i].status = status]
          /\ IF StatusFailed(status)
             THEN /\ log' = [log EXCEPT ![i] =
                        Append(@, [msg |-> "Failed: " \o ToString(status), arg |-> Url(i)])]
                  /\ pbar' = [pbar EXCEPT !.n = @ + 1]
                  /\ sem' = sem + 1
                  /\ pc' = [pc EXCEPT ![i] = "done"]
             ELSE /\ pc' = [pc EXCEPT ![i] = "reading"]
                  /\ UNCHANGED <<log, pbar, sem>>
    /\ UNCHANGED <<items, FFMPEG_BIN, remote, host, exc, steps, fs, gather, mainpc>>

\* the body arrives and the rest of download_and_tag runs without another
\* suspension (lines 89-156), then wrapped updates the bar and releases the
\* semaphore (line 171)
ReadBody(i) ==
    /\ pc[i] = "reading"
    /\ \E r \in remote, env \in host :
          LET ext == detect_extension(r.data, r.ct)
              fp  == FilePath(locals[i].date_str, ext)
              L   == [locals[i] EXCEPT
                         !.data = r.data, !.content_type = r.ct, !.ext = ext,
                         !.filepath = fp,
                         !.cmd = IF Embedder(ext) = "video"
                                 THEN RemuxCmd(FFMPEG_BIN, fp, fp \o ".tmp.mp4",
                                               locals[i].date_str, locals[i].loc,
                                               locals[i].iso_z, locals[i].latlon)
                                 ELSE <<>>,
                         !.env = Consulted(ext, locals[i].dt, env)]
              w   == download_and_tag_body(
                         [fs |-> fs, log |-> log[i], steps |-> steps[i]],
                         L, FFMPEG_BIN, env)
          IN  /\ locals' = [locals EXCEPT ![i] = L]
              /\ fs' = w.fs
              /\ log' = [log EXCEPT ![i] = w.log]
              /\ steps' = [steps EXCEPT ![i] = w.steps]
    /\ pbar' = [pbar EXCEPT !.n = @ + 1]
    /\ sem' = sem + 1
    /\ pc' = [pc EXCEPT ![i] = "done"]
    /\ UNCHANGED <<items, FFMPEG_BIN, remote, host, exc, gather, mainpc>>

\* the connection fails while the task awaits session.get or resp.read:
\* aiohttp raises, nothing in download_and_tag or wrapped catches it
ClientError(i) ==
    /\ pc[i] \in {"requesting", "reading"}
    /\ Raised(i, "ClientError")
    /\ sem' = sem + 1
    /\ UNCHANGED <<items, FFMPEG_BIN, remote, host, locals, pbar, log, steps, fs, mainpc>>

\* gather completed without an exception: main closes the bar and returns
MainReturn ==
    /\ mainpc = "gather"
    /\ ~gather
    /\ \A i \in Items : pc[i] = "done"
    /\ pbar' = [pbar EXCEPT !.closed = TRUE]
    /\ mainpc' = "returned"
    /\ UNCHANGED <<items, FFMPEG_BIN, remote, host, pc, exc, locals, sem, log, steps, fs, gather>>

\* the await of gather raises the first exception: main closes the bar and
\* the session and raises, and asyncio.run cancels every task still running
MainRaise ==
    /\ mainpc = "gather"
    /\ gather
    /\ pbar' = [pbar EXCEPT !.closed = TRUE]
    /\ pc' = [i \in Items |->
                IF pc[i] \in {"pending", "requesting", "reading"}
                THEN "cancelled" ELSE pc[i]]
    /\ sem' = sem + Cardinality({i \in Items : pc[i] \in {"requesting", "reading"}})
    /\ mainpc' = "raised"
    /\ UNCHANGED <<items, FFMPEG_BIN, remote, host, exc, locals, log, steps, fs, gather>>

Next ==
    \/ \E i \in Items : Enter(i)
    \/ \E i \in Items : GetResponse(i)
    \/ \E i \in Items : ReadBody(i)
    \/ \E i \in Items : ClientError(i)
    \/ MainReturn
    \/ MainRaise

Spec == Init /\ [][Next]_vars

SpecItem == InitItem /\ [][Next]_vars

(***************************************************************************)
(* The classifier on its own: one item, every pair of a Content-Type       *)
(* header and a body                                                       *)
(***************************************************************************)
\* Content-Type headers: absent, the six of EXT_BY_CT (video/mp4 with a
\* parameter), two in other case and spacing, two outside the table
ClassifyContentTypes ==
    { <<>>,
      <<"i","m","a","g","e","/","j","p","e","g">>,
      <<"i","m","a","g","e","/","j","p","g">>,
      <<"i","m","a","g","e","/","p","n","g">>,
      <<"i","m","a","g","e","/","w","e","b","p">>,
      <<"v","i","d","e","o","/","m","p","4",";"," ","c","o","d","e","c","s","=","a","v","c","1">>,
      <<"v","i","d","e","o","/","q","u","i","c","k","t","i","m","e">>,
      <<"I","M","A","G","E","/","P","N","G">>,
      <<"I","m","a","g","e","/","W","e","b","P"," ",";","q","=","1">>,
      <<"a","p","p","l","i","c","a","t","i","o","n","/","o","c","t","e","t","-","s","t","r","e","a","m">>,
      <<"t","e","x","t","/","p","l","a","i","n">> }

\* bodies: jpeg; two bytes of a jpeg; png; webp; RIFF, not WEBP; ftyp isom; ftyp qt; ftyp heic; ftyp mif1
\*   ftyp after a size not starting 00 00; ftyp without a brand; zip; empty; none of them
ClassifyBuffers ==
    { <<255, 216, 255, 224>>,
      <<255, 216>>,
      <<137, 80, 78, 71, 13, 10, 26, 10>>,
      <<82, 73, 70, 70, 36, 0, 0, 0, 87, 69, 66, 80>>,
      <<82, 73, 70, 70, 36, 0, 0, 0, 87, 65, 86, 69>>,
      <<0, 0, 0, 24, 102, 116, 121, 112, 105, 115, 111, 109>>,
      <<0, 0, 0, 20, 102, 116, 121, 112, 113, 116, 32, 32>>,
      <<0, 0, 0, 24, 102, 116, 121, 112, 104, 101, 105, 99>>,
      <<0, 0, 0, 24, 102, 116, 121, 112, 109, 105, 102, 49>>,
      <<1, 0, 0, 0, 102, 116, 121, 112, 105, 115, 111, 109>>,
      <<0, 0, 0, 8, 102, 116, 121, 112>>,
      <<80, 75, 3, 4>>,
      <<>>,
      <<1, 2, 3>> }

ClassifyResponses == [ct : ClassifyContentTypes, data : ClassifyBuffers]

InitClassify ==
    InitWith(1, {[Date |-> <<>>, Location |-> <<>>]}, {"./ffmpeg"},
             ClassifyResponses,
             {[photo |-> "open_fail", video |-> "no_binary", sidecar |-> "ok",
               utime |-> "ok"]})

SpecClassify == InitClassify /\ [][Next]_vars

(***************************************************************************)
(* The location parser on its own: one item without a date, every          *)
(* location text                                                           *)
(***************************************************************************)
LocZeroFive == <<"L","a","t","i","t","u","d","e",","," ","L","o","n","g","i","t","u","d","e",":"," ","0",".","0",","," ","5",".","0">>

\* location texts: the two of Entries and the empty one; one zero value; no
\* pattern; no spaces and explicit signs; zeros in other spellings; the
\* pattern inside other text; one value only; a number without an integer
\* part; the pattern without its comma; the pattern in lower case
LocationTexts ==
    { LocCoords, LocZero, <<>>, LocZeroFive,
      <<"L","a","t","i","t","u","d","e",","," ","L","o","n","g","i","t","u","d","e",":"," ","-","3",".","5",","," ","0">>,
      <<"n","o"," ","l","o","c","a","t","i","o","n">>,
      <<"L","a","t","i","t","u","d","e",",","L","o","n","g","i","t","u","d","e",":","+","1",",","-","2">>,
      <<"L","a","t","i","t","u","d","e",","," ","L","o","n","g","i","t","u","d","e",":"," ","0",","," ","0">>,
      <<"L","a","t","i","t","u","d","e",","," ","L","o","n","g","i","t","u","d","e",":"," ","-","0",".","0",","," ","+","0",".","0","0">>,
      <<"a","t"," ","L","a","t","i","t","u","d","e",","," ","L","o","n","g","i","t","u","d","e",":"," ","1","2",".","2","5"," ",","," ","7",".","5"," ","a","p","p","r","o","x">>,
      <<"L","a","t","i","t","u","d","e",","," ","L","o","n","g","i","t","u","d","e",":"," ","3","7",".","1">>,
      <<"L","a","t","i","t","u","d","e",","," ","L","o","n","g","i","t","u","d","e",":"," ",".","5",","," ","1">>,
      <<"L","a","t","i","t","u","d","e"," ","L","o","n","g","i","t","u","d","e",":"," ","1",","," ","2">>,
      <<"l","a","t","i","t","u","d","e",","," ","l","o","n","g","i","t","u","d","e",":"," ","1",","," ","2">> }

InitLocation ==
    InitWith(1, {[Date |-> <<>>, Location |-> t] : t \in LocationTexts},
             {"./ffmpeg"},
             { [ct |-> <<>>, data |-> <<255, 216, 255, 224>>],
               [ct |-> <<>>, data |-> <<0, 0, 0, 20, 102, 116, 121, 112, 113, 116, 32, 32>>] },
             {[photo |-> "ok", video |-> "ok", sidecar |-> "ok", utime |-> "ok"]})

SpecLocation == InitLocation /\ [][Next]_vars

(***************************************************************************)
(* The coordinate encoder on its own: one jpeg item whose latitude runs    *)
(* over a grid of [-180, 180] in millionths of a degree                    *)
(***************************************************************************)
\* n written with k digits
RECURSIVE DigitChars(_, _)
DigitChars(n, k) ==
    IF k = 0 THEN <<>> ELSE DigitChars(n \div 10, k - 1) \o <<Digits[(n % 10) + 1]>>

\* the decimal text of a value: sign, integer part, ".", FracDigits digits
CoordText(v) ==
    LET int == v.mag \div DegScale
    IN  (IF v.neg THEN <<"-">> ELSE <<>>)
        \o DigitChars(int, IF int < 10 THEN 1 ELSE IF int < 100 THEN 2 ELSE 3)
        \o <<".">> \o DigitChars(v.mag % DegScale, FracDigits)

\* "Latitude, Longitude: <v>, 1"
GridLocation(v) == SubSeq(LocCoords, 1, 21) \o CoordText(v) \o <<",", " ", "1">>

GridDegrees == {0, 1, 37, 89, 122, 179}

\* fractions of a degree in millionths: whole minutes (.1, .15, .25, .5,
\* .6), the neighbours of a minute (.016666, .016667), the last minute
\* (.983333), the last seconds (.999861, .999999), the first millionth
GridFractions ==
    {0, 1, 16666, 16667, 100000, 150000, 250000, 500000, 600000, 983333,
     999861, 999999}

GridValues ==
    [neg : BOOLEAN,
     mag : {d * DegScale + f : d \in GridDegrees, f \in GridFractions}
             \cup {180 * DegScale}]

InitCoord ==
    InitWith(1, {[Date |-> <<>>, Location |-> GridLocation(v)] : v \in GridValues},
             {"./ffmpeg"},
             {[ct |-> <<>>, data |-> <<255, 216, 255, 224>>]},
             {[photo |-> "ok", video |-> "ok", sidecar |-> "ok", utime |-> "ok"]})

SpecCoord == InitCoord /\ [][Next]_vars

(***************************************************************************)
(* Properties                                                              *)
(***************************************************************************)
\* the items that have entered download_and_tag and not yet left it
InFlight == {i \in Items : pc[i] \in {"requesting", "reading"}}

\* the file at path holds exactly the bytes data
HoldsBytes(path, data) ==
    /\ path \in DOMAIN fs
    /\ fs[path].content.kind = "raw"
    /\ fs[path].content.src = data

\* the steps of item i that are one of the three embedders
EmbeddersRun(i) ==
    {steps[i][k] : k \in 1..Len(steps[i])} \cap {"photo", "video", "sidecar"}

\* the "Date" of item i is not empty and does not parse
MalformedDate(i) ==
    /\ Strip(items[i].Date) # <<>>
    /\ parse_dt_utc_str(Strip(items[i].Date)).raised

\* item i printed a line starting with msg
Logged(i, msg) == \E k \in 1..Len(log[i]) : log[i][k].msg = msg

\* C1: batch isolation: no item's failure leaves its task as an exception or
\* reaches the gather, and no item is cancelled or left unstarted because of
\* another item's failure.
C1_BatchIsolation ==
    /\ ~gather
    /\ \A i \in Items : exc[i] = None /\ pc[i] # "cancelled"
    /\ mainpc # "gather" => \A i \in Items : pc[i] = "done"

\* C2: concurrency bound: in every reachable state at most SemLimit items
\* have entered download_and_tag and not yet left it.
C2_ConcurrencyBound == Cardinality(InFlight) <= SemLimit

\* a state where SemLimit items are inside download_and_tag at once and the
\* semaphore is exhausted
C2_Witness == Cardinality(InFlight) = SemLimit /\ sem = 0

\* C3: an item whose date is malformed still performs its download and, on a
\* 200 response, writes its primary file; an item that ended without a file
\* is an item whose download failed.
C3_MalformedDateStillDownloads ==
    \A i \in Items :
        /\ MalformedDate(i) => exc[i] # "ValueError"
        /\ (MalformedDate(i) /\ pc[i] = "done" /\ locals[i].status = 200)
               => HoldsBytes(locals[i].filepath, locals[i].data)
                  \/ "write" \in {steps[i][k] : k \in 1..Len(steps[i])}
        /\ (pc[i] \in {"done", "raised"} /\ steps[i] = <<>>)
               => (exc[i] = "ClientError"
                   \/ (pc[i] = "done" /\ locals[i].status # 200))

\* C4: the step in which an item receives a status other than 200 ends the
\* item: no file of the output directory is created or changed, no embedder
\* or finalizer step has run for it, it has logged exactly one failure line,
\* and the progress counter has counted it.
C4_Non200LeavesNoFile ==
    [][\A i \in Items :
          (locals[i].status = 0 /\ locals'[i].status \notin {0, 200})
             => /\ pc'[i] = "done"
                /\ fs' = fs
                /\ steps'[i] = <<>>
                /\ locals'[i].filepath = None
                /\ Len(log'[i]) = 1
                /\ log'[i][1].msg = "Failed: " \o ToString(locals'[i].status)
                /\ pbar'.n = pbar.n + 1]_vars

\* an item answered 404 has ended while the directory holds another item's
\* file
C4_Witness ==
    \E i \in Items :
        /\ pc[i] = "done"
        /\ locals[i].status = 404
        /\ steps[i] = <<>>
        /\ Len(log[i]) = 1
        /\ pbar.n >= 1
        /\ DOMAIN fs # {}

\* C5: for an mp4/mov item whose remux tool failed (with or without a
\* partial temp file), the primary file holds exactly the downloaded bytes
\* when the item ends and the failure has been logged.
C5_RemuxFailureKeepsOriginal ==
    \A i \in Items :
        (/\ pc[i] = "done"
         /\ locals[i].ext \in {".mp4", ".mov"}
         /\ locals[i].env.video \in {"fail_partial", "fail_no_tmp"})
            => /\ HoldsBytes(locals[i].filepath, locals[i].data)
               /\ Logged(i, "MP4 metadata failed for")

\* C6: for a jpeg item whose photo embedding failed at any point (open,
\* metadata block, in-place save), the primary file holds exactly the
\* downloaded bytes.
C6_PhotoFailureKeepsOriginal ==
    \A i \in Items :
        (/\ pc[i] = "done"
         /\ locals[i].ext = ".jpg"
         /\ locals[i].env.photo \in {"open_fail", "dump_fail", "save_fail"})
            => HoldsBytes(locals[i].filepath, locals[i].data)

\* C7: the step that ends a zip item has run the write and the finalizer and
\* nothing else: no embedder or sidecar step, the file holds the downloaded
\* bytes, and neither "<path>.json" nor the temp file exists.
C7_ZipOnlyFinalized ==
    [][\A i \in Items :
          (pc[i] = "reading" /\ pc'[i] = "done" /\ locals'[i].ext = ".zip")
             => /\ steps'[i] = <<"write", "set_file_times">>
                /\ locals'[i].filepath \in DOMAIN fs'
                /\ fs'[locals'[i].filepath].content.kind = "raw"
                /\ fs'[locals'[i].filepath].content.src = locals'[i].data
                /\ (locals'[i].filepath \o ".json") \notin DOMAIN fs'
                /\ (locals'[i].filepath \o ".tmp.mp4") \notin DOMAIN fs']_vars

\* a zip item with a capture time has ended, its file finalized
C7_Witness ==
    \E i \in Items :
        /\ pc[i] = "done"
        /\ locals[i].ext = ".zip"
        /\ locals[i].dt.ok
        /\ HoldsBytes(locals[i].filepath, locals[i].data)
        /\ fs[locals[i].filepath].times # <<>>

\* C8: embedder dispatch: for every item whose download succeeded, at most
\* one of photo, video, sidecar has run, each once: photo iff the extension
\* is .jpg, video iff .mp4 or .mov, sidecar iff none of .jpg, .mp4, .mov,
\* .zip, and none for .zip.
C8_EmbedderDispatch ==
    \A i \in Items :
        (pc[i] = "done" /\ locals[i].status = 200)
            => /\ Cardinality(EmbeddersRun(i)) <= 1
               /\ Len(steps[i]) = 2 + Cardinality(EmbeddersRun(i))
               /\ "photo" \in EmbeddersRun(i) <=> locals[i].ext = ".jpg"
               /\ "video" \in EmbeddersRun(i) <=> locals[i].ext \in {".mp4", ".mov"}
               /\ "sidecar" \in EmbeddersRun(i)
                     <=> locals[i].ext \notin {".jpg", ".mp4", ".mov", ".zip"}
               /\ locals[i].ext = ".zip" => EmbeddersRun(i) = {}

\* a .mov item has ended having run the video embedder and no other
C8_Witness ==
    \E i \in Items :
        /\ pc[i] = "done"
        /\ locals[i].ext = ".mov"
        /\ steps[i] = <<"write", "video", "set_file_times">>

\* C9: completion reporting: when the run has ended, the progress counter
\* equals the number of manifest items, and at every moment it counts
\* exactly the items whose task has ended, each once.
C9_CompletionReported ==
    /\ mainpc # "gather" => pbar.n = Cardinality(Items)
    /\ pbar.n = Cardinality({i \in Items : pc[i] \in {"done", "raised"}})

\* C10: item-local files: two distinct items never use the same primary
\* path or temp path.
C10_ItemLocalFiles ==
    \A i, j \in Items :
        (i # j /\ locals[i].filepath # None /\ locals[j].filepath # None)
            => {locals[i].filepath, locals[i].filepath \o ".tmp.mp4"}
                 \cap {locals[j].filepath, locals[j].filepath \o ".tmp.mp4"} = {}

\* the times of the file at path
TimesOf(path) == fs[path].times

\* C11: finalizer: the step that ends an item which wrote its primary file
\* has run set_file_times once, after everything else, whatever the embedder
\* or sidecar did.  With a parsed capture time and a working os.utime the
\* file's access and modification times are the capture time; without a
\* capture time the file's times are those of its last write and nothing is
\* logged for the finalizer; when os.utime raises, the failure is logged, the
\* item ends normally and the progress bar counts it.
C11_Finalizer ==
    [][\A i \in Items :
          (pc[i] = "reading" /\ pc'[i] = "done")
             => LET L == locals'[i]
                IN  /\ L.filepath \in DOMAIN fs'
                    /\ steps'[i][Len(steps'[i])] = "set_file_times"
                    /\ Cardinality({k \in 1..Len(steps'[i]) :
                                     steps'[i][k] = "set_file_times"}) = 1
                    /\ (L.dt.ok /\ L.env.utime = "ok")
                          => /\ fs'[L.filepath].times
                                  = <<Timestamp(L.dt), Timestamp(L.dt)>>
                             /\ ~Logged(i, "Failed to set file times for")'
                    /\ ~L.dt.ok
                          => /\ fs'[L.filepath].times = <<>>
                             /\ ~Logged(i, "Failed to set file times for")'
                    /\ (L.dt.ok /\ L.env.utime = "fail")
                          => /\ Logged(i, "Failed to set file times for")'
                             /\ fs'[L.filepath].times = <<>>
                    /\ exc'[i] = None
                    /\ pbar'.n = pbar.n + 1]_vars

\* a .jpg item whose re-encode failed has ended with its file's times set to
\* its capture time, 2021-06-15 14:30:00 UTC
C11_Witness ==
    \E i \in Items :
        /\ pc[i] = "done"
        /\ locals[i].ext = ".jpg"
        /\ locals[i].env.photo = "save_fail"
        /\ Logged(i, "EXIF failed for")
        /\ locals[i].dt.ok
        /\ TimesOf(locals[i].filepath) = <<1623767400, 1623767400>>

\* the values that follow a "-metadata" in cmd
MetadataArgs(cmd) ==
    {cmd[k + 1] : k \in {j \in 1..(Len(cmd) - 1) : cmd[j] = "-metadata"}}

\* the description argument for a date text and a location text
DescriptionOf(date, loc) ==
    "description=Date: " \o Join(date) \o "; Location: " \o Join(loc)

\* every description argument the texts of Entries can give
DescriptionArgs ==
    {DescriptionOf(Strip(e.Date), f.Location) : e \in Entries, f \in Entries}

\* C12: the remux command of an mp4/mov item carries the description
\* "Date: <dateText>; Location: <locationText>", and no other description,
\* when dateText or locationText is not empty, whether or not the location
\* text gave a coordinate; it carries no description when both are empty.
C12_DescriptionTag ==
    \A i \in Items :
        (pc[i] = "done" /\ locals[i].ext \in {".mp4", ".mov"})
            => LET L    == locals[i]
                   args == MetadataArgs(L.cmd) \cap DescriptionArgs
               IN  IF L.date_str # <<>> \/ L.loc # <<>>
                   THEN args = {DescriptionOf(L.date_str, L.loc)}
                   ELSE args = {}

\* every creation_time argument the dates of Entries can give, the one of an
\* absent iso_z included
CreationTimeArgs ==
    {"creation_time=" \o parse_dt_utc_str(Strip(e.Date)).iso_z :
        e \in {x \in Entries : Strip(x.Date) # <<>>}}
    \cup {"creation_time=" \o None}

\* every location argument the texts of Entries can give, under both tags
LocationArgs ==
    {k \o "=" \o v :
        k \in {"com.apple.quicktime.location.ISO6709", "location"},
        v \in {Iso6709(parse_lat_lon(e.Location)) :
                 e \in {x \in Entries : parse_lat_lon(x.Location).ok}}
              \cup {None}}

\* the "Date" of item i is not empty and parses
CaptureTimeParsed(i) ==
    /\ Strip(items[i].Date) # <<>>
    /\ ~parse_dt_utc_str(Strip(items[i].Date)).raised

\* C13: metadata presence: the EXIF block of a re-encoded jpeg has GPS
\* fields only if the item's location text gives a coordinate that is not
\* discarded, and date fields only if the item's date parsed; the remux
\* command of a video item has the ISO6709 and location tags only if the
\* text gives such a coordinate, and creation_time only if the date parsed.
C13_MetadataPresence ==
    \A i \in Items :
        (pc[i] = "done" /\ locals[i].status = 200)
            => LET L    == locals[i]
                   f    == fs[L.filepath].content
                   args == MetadataArgs(L.cmd)
               IN  /\ f.kind = "jpeg"
                       => /\ DOMAIN f.meta.GPS # {}
                               => parse_lat_lon(items[i].Location).ok
                          /\ DOMAIN f.meta.zeroth \cup DOMAIN f.meta.Exif # {}
                               => CaptureTimeParsed(i)
                   /\ args \cap LocationArgs # {}
                       => parse_lat_lon(items[i].Location).ok
                   /\ args \cap CreationTimeArgs # {}
                       => CaptureTimeParsed(i)

\* a jpeg whose item has no date and the 0.0, 0.0 location has been
\* re-encoded with an EXIF block without GPS and date fields
C13_Witness ==
    \E i \in Items :
        /\ pc[i] = "done"
        /\ items[i].Date = <<>>
        /\ items[i].Location = LocZero
        /\ locals[i].ext = ".jpg"
        /\ fs[locals[i].filepath].content.kind = "jpeg"
        /\ fs[locals[i].filepath].content.meta
              = [zeroth |-> EmptyDict, Exif |-> EmptyDict, GPS |-> EmptyDict]

\* the lines of item i that start with msg
LinesOf(i, msg) == {k \in 1..Len(log[i]) : log[i][k].msg = msg}

\* the step ends the pipeline of an mp4/mov item whose remux tool could not
\* be started
ToolUnavailableEnds(i) ==
    /\ pc[i] = "reading"
    /\ pc'[i] = "done"
    /\ locals'[i].ext \in {".mp4", ".mov"}
    /\ locals'[i].env.video = "no_binary"

\* C14 as stated: when the remux tool of an mp4/mov item cannot be started,
\* the pipeline ends with the file holding the downloaded bytes, exactly one
\* line logged for the item, and no "<path>.tmp.mp4".
C14_ToolUnavailable_OneLine ==
    [][\A i \in Items :
          ToolUnavailableEnds(i)
             => /\ HoldsBytes(locals[i].filepath, locals[i].data)'
                /\ Len(log'[i]) = 1
                /\ (locals'[i].filepath \o ".tmp.mp4") \notin DOMAIN fs']_vars

\* C14: when the remux tool of an mp4/mov item cannot be started, the
\* pipeline ends with the file holding the downloaded bytes, exactly one
\* "MP4 metadata failed" line, and no "<path>.tmp.mp4"; that line is the
\* item's only line unless os.utime fails as well, which adds the
\* finalizer's own line.
C14_ToolUnavailable ==
    [][\A i \in Items :
          ToolUnavailableEnds(i)
             => /\ HoldsBytes(locals[i].filepath, locals[i].data)'
                /\ Cardinality(LinesOf(i, "MP4 metadata failed for")') = 1
                /\ Len(log'[i]) =
                      1 + Cardinality(LinesOf(i, "Failed to set file times for")')
                /\ LinesOf(i, "Failed to set file times for")' # {}
                      <=> locals'[i].env.utime = "fail"
                /\ (locals'[i].filepath \o ".tmp.mp4") \notin DOMAIN fs']_vars

\* an .mp4 item whose tool is the fallback "./ffmpeg" and could not be
\* started has ended with one line, its file the downloaded bytes
C14_Witness ==
    \E i \in Items :
        /\ pc[i] = "done"
        /\ locals[i].ext = ".mp4"
        /\ FFMPEG_BIN = "./ffmpeg"
        /\ locals[i].env.video = "no_binary"
        /\ HoldsBytes(locals[i].filepath, locals[i].data)
        /\ log[i] = <<[msg |-> "MP4 metadata failed for",
                       arg |-> BaseName(locals[i].date_str) \o ".mp4"]>>

\* the known-MIME table of the reference algorithm
RefTable ==
    { <<"image/jpeg", ".jpg">>, <<"image/png", ".png">>, <<"image/webp", ".webp">>,
      <<"video/mp4", ".mp4">>, <<"video/quicktime", ".mov">> }

\* the bytes of data from offset a up to offset b, as far as data has them
BytesAt(data, a, b) ==
    [k \in 1..((IF Len(data) < b THEN Len(data) ELSE b) - a) |-> data[a + k]]

\* the magic-byte rules of the reference algorithm, in order; a rule is the
\* bytes it wants at offsets and the category it gives
RefRules(data) ==
    LET brand == BytesAt(data, 8, 12)
        ftyp  == BytesAt(data, 4, 8) = <<102, 116, 121, 112>>
    IN  << [hit |-> BytesAt(data, 0, 3) = <<255, 216, 255>>, ext |-> ".jpg"],
           [hit |-> BytesAt(data, 0, 8) = <<137, 80, 78, 71, 13, 10, 26, 10>>,
            ext |-> ".png"],
           [hit |-> BytesAt(data, 0, 4) = <<82, 73, 70, 70>>
                      /\ brand = <<87, 69, 66, 80>>,
            ext |-> ".webp"],
           [hit |-> ftyp /\ brand \in { <<104, 101, 105, 99>>, <<104, 101, 105, 120>>,
                                        <<104, 101, 118, 99>>, <<104, 101, 118, 120>>,
                                        <<109, 105, 102, 49>> },
            ext |-> ".heic"],
           [hit |-> ftyp /\ brand = <<113, 116, 32, 32>>, ext |-> ".mov"],
           [hit |-> ftyp, ext |-> ".mp4"],
           [hit |-> BytesAt(data, 0, 2) = <<0, 0>> /\ ftyp, ext |-> ".mp4"],
           [hit |-> BytesAt(data, 0, 4) = <<80, 75, 3, 4>>, ext |-> ".zip"],
           [hit |-> TRUE, ext |-> ".bin"] >>

\* the reference algorithm over a known-MIME table: the content type,
\* without its parameters and lower-cased, when the table has it; else the
\* first magic-byte rule that matches
RefClassify(data, content_type, table) ==
    LET ct    == Join(Lower(Strip(BeforeSemicolon(content_type))))
        known == {e \in table : e[1] = ct}
        rules == RefRules(data)
        first == CHOOSE k \in 1..Len(rules) :
                    rules[k].hit /\ \A j \in 1..(k - 1) : ~rules[j].hit
    IN  IF known # {} THEN (CHOOSE e \in known : TRUE)[2] ELSE rules[first].ext

\* C15 as stated: for every Content-Type and body, the extension an item
\* gets is the one of the reference algorithm over the table image/jpeg,
\* image/png, image/webp, video/mp4, video/quicktime, and no exception
\* leaves the classifier.
C15_ClassifierFiveTypes ==
    \A i \in Items :
        (pc[i] = "done" /\ locals[i].status = 200)
            => /\ locals[i].ext
                    = RefClassify(locals[i].data, locals[i].content_type, RefTable)
               /\ exc[i] = None

\* C15: for every Content-Type and body, the extension an item gets is the
\* one of the reference algorithm over the table image/jpeg, image/jpg,
\* image/png, image/webp, video/mp4, video/quicktime: a content type of the
\* table wins over the magic bytes, any other leaves the decision to them,
\* and what nothing matches is .bin; no exception leaves the classifier.
C15_Classifier ==
    \A i \in Items :
        (pc[i] = "done" /\ locals[i].status = 200)
            => /\ locals[i].ext
                    = RefClassify(locals[i].data, locals[i].content_type,
                                  RefTable \cup {<<"image/jpg", ".jpg">>})
               /\ exc[i] = None

\* a zip body announced as image/jpg has been classified by its content
\* type: it has become a .jpg
C15_Witness ==
    \E i \in Items :
        /\ pc[i] = "done"
        /\ Join(locals[i].content_type) = "image/jpg"
        /\ locals[i].data = <<80, 75, 3, 4>>
        /\ locals[i].ext = ".jpg"

\* x degrees and y millionths, signed
Degrees(neg, x, y) == [neg |-> neg, mag |-> x * DegScale + y]

\* C16: location parsing: the coordinate of an item is absent exactly when
\* its location text has no match of the pattern or the leftmost match has
\* both values zero; otherwise it is the matched pair, signs kept: 37.1,
\* -122.6 for "Latitude, Longitude: 37.1, -122.6" and 0.0, 5.0 for
\* "Latitude, Longitude: 0.0, 5.0".
C16_LocationParsing ==
    \A i \in Items :
        pc[i] \in {"requesting", "reading", "done"}
            => LET loc  == items[i].Location
                   hits == {p \in 1..Len(loc) : LatLonAt(loc, p).ok}
                   m    == LatLonAt(loc, CHOOSE p \in hits : \A q \in hits : p <= q)
                   both == m.lat.mag = 0 /\ m.lon.mag = 0
               IN  /\ ~locals[i].latlon.ok <=> (hits = {} \/ both)
                   /\ locals[i].latlon.ok => locals[i].latlon = m
                   /\ loc = LocCoords
                         => locals[i].latlon
                              = [ok |-> TRUE, lat |-> Degrees(FALSE, 37, 100000),
                                 lon |-> Degrees(TRUE, 122, 600000)]
                   /\ loc = LocZeroFive
                         => locals[i].latlon
                              = [ok |-> TRUE, lat |-> Degrees(FALSE, 0, 0),
                                 lon |-> Degrees(FALSE, 5, 0)]
                   /\ loc \in {LocZero, <<>>} => ~locals[i].latlon.ok

\* the item with "Latitude, Longitude: 0.0, 5.0" has its coordinate
C16_Witness ==
    \E i \in Items :
        /\ pc[i] = "done"
        /\ items[i].Location = LocZeroFive
        /\ locals[i].latlon.ok
        /\ locals[i].latlon.lon.mag = 5 * DegScale

\* the items whose jpeg has been re-encoded with GPS fields
Encoded == {i \in Items :
              /\ pc[i] = "done"
              /\ locals[i].status = 200
              /\ fs[locals[i].filepath].content.kind = "jpeg"
              /\ DOMAIN fs[locals[i].filepath].content.meta.GPS # {}}

\* the GPS fields of item i
GPSOf(i) == fs[locals[i].filepath].content.meta.GPS

\* the triple dms with the hemisphere of a negative sign, neg, decodes to v
\* within one unit of 1/(3600*10000) degree, its degrees and minutes those
\* of v truncated.  With rem the millionths of a degree v has above d,
\* rem * 36 is that remainder in units of 1/(3600*10000) degree.
RoundTrips(v, neg, dms) ==
    LET d   == dms[1][1]
        m   == dms[2][1]
        s   == dms[3][1]
        rem == v.mag - d * DegScale
        err == m * 600000 + s - rem * 36
    IN  /\ <<dms[1][2], dms[2][2], dms[3][2]>> = <<1, 1, 10000>>
        /\ neg <=> (v.neg /\ v.mag # 0)
        /\ d = v.mag \div DegScale
        /\ m * DegScale <= rem * 60
        /\ rem * 60 <= (m + 1) * DegScale
        /\ -1 <= err /\ err <= 1

\* C17: encoder round trip: for every value of the grid the latitude and
\* longitude written to a jpeg decode, as sign * (d + m/60 + s/(3600*10000)),
\* to the coordinate parsed from the item's text within 1/(3600*10000)
\* degree, with d and m the truncations of the computed values and only s
\* rounded.
C17_EncoderRoundTrip ==
    \A i \in Encoded :
        /\ RoundTrips(locals[i].latlon.lat, GPSOf(i).GPSLatitudeRef = "S",
                      GPSOf(i).GPSLatitude)
        /\ RoundTrips(locals[i].latlon.lon, GPSOf(i).GPSLongitudeRef = "W",
                      GPSOf(i).GPSLongitude)

\* the latitude -122.6, whose float product is just below 36 minutes, has
\* been written as 122 degrees 35 minutes 60.0000 seconds south
C17_Witness ==
    \E i \in Encoded :
        /\ locals[i].latlon.lat = [neg |-> TRUE, mag |-> 122600000]
        /\ GPSOf(i).GPSLatitudeRef = "S"
        /\ GPSOf(i).GPSLatitude = << <<122, 1>>, <<35, 1>>, <<600000, 10000>> >>

\* dms is a degree/minute/second triple in range
WellFormed(dms) ==
    /\ 0 <= dms[1][1] /\ dms[1][1] <= 180
    /\ 0 <= dms[2][1] /\ dms[2][1] <= 59
    /\ 0 <= dms[3][1] /\ dms[3][1] < 600000

\* C19: for every value of the grid the triples written to a jpeg are well
\* formed: 0 <= d <= 180, 0 <= m <= 59 and 0 <= s < 600000.
C19_WellFormedTriple ==
    \A i \in Encoded :
        /\ WellFormed(GPSOf(i).GPSLatitude)
        /\ WellFormed(GPSOf(i).GPSLongitude)

\* C18: the step that ends an item which wrote its primary file has run the
\* write first and set_file_times last, with no other set_file_times in
\* between, on the zip path and after an embedder failure as well; so the
\* times set from a capture time are still on the file when the pipeline
\* ends: no write, re-encode or replace of the item came after them.
C18_FinalizerLast ==
    [][\A i \in Items :
          (pc[i] = "reading" /\ pc'[i] = "done")
             => LET st == steps'[i]
                    L  == locals'[i]
                IN  /\ Len(st) >= 2
                    /\ st[1] = "write"
                    /\ st[Len(st)] = "set_file_times"
                    /\ \A k \in 1..(Len(st) - 1) :
                          st[k] \in {"write", "photo", "video", "sidecar"}
                    /\ (L.dt.ok /\ L.env.utime = "ok")
                          => fs'[L.filepath].times # <<>>]_vars

\* a .mp4 item whose tool failed and whose temp file replaced the download
\* has ended with the finalizer as its last step and its times set
C18_Witness ==
    \E i \in Items :
        /\ pc[i] = "done"
        /\ locals[i].ext = ".mp4"
        /\ locals[i].env.video = "fail_partial"
        /\ steps[i] = <<"write", "video", "set_file_times">>
        /\ fs[locals[i].filepath].content.kind = "partial"
        /\ fs[locals[i].filepath].times # <<>>

====
